---- MODULE Spec2Model ----
(***************************************************************************)
(* memex-ast: the Go source analysis module of memex.                      *)
(*                                                                         *)
(* The module parses Go files into go/ast trees (Parser), derives a type   *)
(* table, a call table and a usage table from them (Analyzer), and writes  *)
(* nodes and links to the memex repository (GraphBuilder).  The facade     *)
(* AST.Parse runs the three in sequence.                                   *)
(*                                                                         *)
(* The state is the three components' fields and the repository.  The     *)
(* file system is a fixed catalogue of small Go sources, given below as    *)
(* the trees go/parser builds for them.  Go's map iteration order is a     *)
(* choice over all orders; a repository write may fail.                    *)
(***************************************************************************)
EXTENDS Integers, Sequences, FiniteSets, TLC

\* The number of AST.Parse calls made on one module instance.
MaxParses == 2
\* The number of repository writes that fail in one run.
MaxFailures == 1
\* The number of direct calls to the components' exported methods in one run.
MaxCalls == 4
\* The number of entries of a table drawn for GraphBuilder.buildRelationships.
MaxPairs == 2

-----------------------------------------------------------------------------
(* go/ast trees.  A tree is the sequence of its nodes in the order ast.Walk *)
(* visits them (depth first, a node before its children); a node names its  *)
(* parent by position (0: none) and the field of the parent that holds it.  *)

N(kind, name, parent, slot) ==
    [kind |-> kind, name |-> name, parent |-> parent, slot |-> slot]

\* /w/pkg/greet.go
\*   package p
\*   type Greeter interface { Greet() }
\*   type Dog struct{}
\*   func (d Dog) Greet() {}
Src_pkg_greet_go ==
    << N("File", "p", 0, ""),
       N("Ident", "p", 1, "Name"),
       N("GenDecl", "", 1, "Decls"),
       N("TypeSpec", "Greeter", 3, "Specs"),
       N("Ident", "Greeter", 4, "Name"),
       N("InterfaceType", "", 4, "Type"),
       N("FieldList", "", 6, "Methods"),
       N("Field", "", 7, "List"),
       N("Ident", "Greet", 8, "Names"),
       N("FuncType", "", 8, "Type"),
       N("FieldList", "", 10, "Params"),
       N("GenDecl", "", 1, "Decls"),
       N("TypeSpec", "Dog", 12, "Specs"),
       N("Ident", "Dog", 13, "Name"),
       N("StructType", "", 13, "Type"),
       N("FieldList", "", 15, "Fields"),
       N("FuncDecl", "Greet", 1, "Decls"),
       N("FieldList", "", 17, "Recv"),
       N("Field", "", 18, "List"),
       N("Ident", "d", 19, "Names"),
       N("Ident", "Dog", 19, "Type"),
       N("Ident", "Greet", 17, "Name"),
       N("FuncType", "", 17, "Type"),
       N("FieldList", "", 23, "Params"),
       N("BlockStmt", "", 17, "Body") >>

\* /w/pkg/car.go
\*   package p
\*   type Car struct { Dog; *X; io.Reader; n int }
\*   type X int
\*   func A(c Car) { var d Dog; B(); ext.Call() }
\*   func B() {}
\*   var v = B()
Src_pkg_car_go ==
    << N("File", "p", 0, ""),
       N("Ident", "p", 1, "Name"),
       N("GenDecl", "", 1, "Decls"),
       N("TypeSpec", "Car", 3, "Specs"),
       N("Ident", "Car", 4, "Name"),
       N("StructType", "", 4, "Type"),
       N("FieldList", "", 6, "Fields"),
       N("Field", "", 7, "List"),
       N("Ident", "Dog", 8, "Type"),
       N("Field", "", 7, "List"),
       N("StarExpr", "", 10, "Type"),
       N("Ident", "X", 11, "X"),
       N("Field", "", 7, "List"),
       N("SelectorExpr", "", 13, "Type"),
       N("Ident", "io", 14, "X"),
       N("Ident", "Reader", 14, "Sel"),
       N("Field", "", 7, "List"),
       N("Ident", "n", 17, "Names"),
       N("Ident", "int", 17, "Type"),
       N("GenDecl", "", 1, "Decls"),
       N("TypeSpec", "X", 20, "Specs"),
       N("Ident", "X", 21, "Name"),
       N("Ident", "int", 21, "Type"),
       N("FuncDecl", "A", 1, "Decls"),
       N("Ident", "A", 24, "Name"),
       N("FuncType", "", 24, "Type"),
       N("FieldList", "", 26, "Params"),
       N("Field", "", 27, "List"),
       N("Ident", "c", 28, "Names"),
       N("Ident", "Car", 28, "Type"),
       N("BlockStmt", "", 24, "Body"),
       N("DeclStmt", "", 31, "List"),
       N("GenDecl", "", 32, "Decl"),
       N("ValueSpec", "", 33, "Specs"),
       N("Ident", "d", 34, "Names"),
       N("Ident", "Dog", 34, "Type"),
       N("ExprStmt", "", 31, "List"),
       N("CallExpr", "", 37, "X"),
       N("Ident", "B", 38, "Fun"),
       N("ExprStmt", "", 31, "List"),
       N("CallExpr", "", 40, "X"),
       N("SelectorExpr", "", 41, "Fun"),
       N("Ident", "ext", 42, "X"),
       N("Ident", "Call", 42, "Sel"),
       N("FuncDecl", "B", 1, "Decls"),
       N("Ident", "B", 45, "Name"),
       N("FuncType", "", 45, "Type"),
       N("FieldList", "", 47, "Params"),
       N("BlockStmt", "", 45, "Body"),
       N("GenDecl", "", 1, "Decls"),
       N("ValueSpec", "", 50, "Specs"),
       N("Ident", "v", 51, "Names"),
       N("CallExpr", "", 51, "Values"),
       N("Ident", "B", 53, "Fun") >>

\* /w/pkg/car_test.go
\*   package p_test
\*   type Car struct{}
\*   func (c Car) Greet() {}
Src_pkg_car_test_go ==
    << N("File", "p_test", 0, ""),
       N("Ident", "p_test", 1, "Name"),
       N("GenDecl", "", 1, "Decls"),
       N("TypeSpec", "Car", 3, "Specs"),
       N("Ident", "Car", 4, "Name"),
       N("StructType", "", 4, "Type"),
       N("FieldList", "", 6, "Fields"),
       N("FuncDecl", "Greet", 1, "Decls"),
       N("FieldList", "", 8, "Recv"),
       N("Field", "", 9, "List"),
       N("Ident", "c", 10, "Names"),
       N("Ident", "Car", 10, "Type"),
       N("Ident", "Greet", 8, "Name"),
       N("FuncType", "", 8, "Type"),
       N("FieldList", "", 14, "Params"),
       N("BlockStmt", "", 8, "Body") >>

\* /w/broken/ok.go
\*   package p
\*   func B() {}
Src_broken_ok_go ==
    << N("File", "p", 0, ""),
       N("Ident", "p", 1, "Name"),
       N("FuncDecl", "B", 1, "Decls"),
       N("Ident", "B", 3, "Name"),
       N("FuncType", "", 3, "Type"),
       N("FieldList", "", 5, "Params"),
       N("BlockStmt", "", 3, "Body") >>

-----------------------------------------------------------------------------
(* The file system the module reads, and go/parser's result on it.          *)

\* The working directory filepath.Abs resolves a relative path against.
Cwd == "/w"

\* filepath.Abs: a relative path is joined to the working directory.
Abs(path) == Cwd \o "/" \o path

\* The paths handed to Parse (relative, as typed on the command line).
Paths ==
    { "pkg", "pkg/greet.go", "broken", "broken/bad.go", "missing" }

Dirs == { "/w/pkg", "/w/broken" }

\* The .go files directly inside a directory.
DirFiles(dir) ==
    CASE dir = "/w/pkg"    -> { "/w/pkg/greet.go", "/w/pkg/car.go", "/w/pkg/car_test.go" }
      [] dir = "/w/broken" -> { "/w/broken/bad.go", "/w/broken/ok.go" }
      [] OTHER             -> {}

GoFiles == UNION { DirFiles(d) : d \in Dirs }

\* os.Stat
Stat(path) ==
    IF path \in Dirs THEN "dir" ELSE IF path \in GoFiles THEN "file" ELSE "none"

\* /w/broken/bad.go does not parse:  package p; func ( {
SyntaxOK(file) == file # "/w/broken/bad.go"

\* The tree parser.ParseFile returns for a file that parses.
Tree(file) ==
    CASE file = "/w/pkg/greet.go"    -> Src_pkg_greet_go
      [] file = "/w/pkg/car.go"      -> Src_pkg_car_go
      [] file = "/w/pkg/car_test.go" -> Src_pkg_car_test_go
      [] file = "/w/broken/ok.go"    -> Src_broken_ok_go
      [] OTHER                       -> << >>

-----------------------------------------------------------------------------
(* Helpers: Go maps as functions on their key set, iteration orders.        *)

EmptyMap == [k \in {} |-> k]

Has(m, k) == k \in DOMAIN m

Put(m, k, v) == [x \in (DOMAIN m) \cup {k} |-> IF x = k THEN v ELSE m[x]]

\* m[k] = append(m[k], v), a missing key reading as the nil slice
AppendTo(m, k, v) == Put(m, k, (IF Has(m, k) THEN m[k] ELSE << >>) \o << v >>)

\* Every order in which a range over a map (or a set) may visit its keys.
RECURSIVE Orders(_)
Orders(S) ==
    IF S = {} THEN { << >> }
    ELSE UNION { { << x >> \o o : o \in Orders(S \ {x}) } : x \in S }

Indices(t) == [j \in 1..Len(t) |-> j]

\* The children of node i held in the parent's field slot, in source order.
Children(t, i, slot) ==
    SelectSeq(Indices(t), LAMBDA j : t[j].parent = i /\ t[j].slot = slot)

\* The one child in a single-valued field; 0 when the field is nil.
Child(t, i, slot) ==
    LET c == Children(t, i, slot) IN IF c = << >> THEN 0 ELSE c[1]

RECURSIVE Ancestors(_, _)
Ancestors(t, i) ==
    IF t[i].parent = 0 THEN {} ELSE {t[i].parent} \cup Ancestors(t, t[i].parent)

\* The nodes ast.Inspect(root, f) hands to f, in order, when f returns false
\* exactly on the nodes of stop: root first, then every node below it that has
\* no ancestor (from root down) in stop.
Inspect(t, root, stop) ==
    SelectSeq(Indices(t),
              LAMBDA j : \/ j = root
                         \/ /\ root \in Ancestors(t, j)
                            /\ root \notin stop
                            /\ \A a \in Ancestors(t, j) :
                                  root \in Ancestors(t, a) => a \notin stop)

\* The node kinds that implement ast.Expr.
ExprKinds ==
    { "Ident", "StarExpr", "SelectorExpr", "CallExpr", "StructType",
      "InterfaceType", "FuncType" }

-----------------------------------------------------------------------------
(* Parser                                                                   *)

\* ParsePath as it would be if it started from an empty collection on every
\* call.
ParsePath_reset(files, path) ==
    CASE Stat(path) = "none" ->
           [files |-> files, err |-> "checking path: no such file or directory"]
      [] Stat(path) = "dir" ->
           IF \E f \in DirFiles(path) : ~SyntaxOK(f)
           THEN [files |-> files, err |-> "parsing directory: syntax error"]
           ELSE [files |-> [f \in DirFiles(path) |-> f], err |-> ""]
      [] OTHER ->
           IF ~SyntaxOK(path)
           THEN [files |-> files, err |-> "parsing file: syntax error"]
           ELSE [files |-> Put(EmptyMap, path, path), err |-> ""]

\* Parser.ParsePath: the new file map and the error ("" for nil).
ParsePath(files, path) ==
    CASE Stat(path) = "none" ->
           [files |-> files, err |-> "checking path: no such file or directory"]
      [] Stat(path) = "dir" ->
           IF \E f \in DirFiles(path) : ~SyntaxOK(f)
           THEN [files |-> files, err |-> "parsing directory: syntax error"]
           ELSE [files |-> [f \in (DOMAIN files) \cup DirFiles(path) |-> f],
                 err |-> ""]
      [] OTHER ->
           IF ~SyntaxOK(path)
           THEN [files |-> files, err |-> "parsing file: syntax error"]
           ELSE [files |-> Put(files, path, path), err |-> ""]

\* The files that parse: the trees a Parser can hold.
Parsed == { f \in GoFiles : SyntaxOK(f) }

\* Parser.GetPackages: the distinct package names (the keys of its local map).
GetPackages(files) == { Tree(files[f])[1].name : f \in DOMAIN files }

\* What the ast.Inspect of GetTypes / GetFunctions collects from one tree.
NodesOfKind(t, kinds) ==
    SelectSeq(Inspect(t, 1, {}), LAMBDA j : t[j].kind \in kinds)

\* One tree's part of a result, for each file of the range in the given order.
RECURSIVE PerFile(_, _, _)
PerFile(part, files, order) ==
    IF order = << >> THEN << >>
    ELSE part[files[Head(order)]] \o PerFile(part, files, Tail(order))

\* The function declarations of each tree, by name, in source order.
FileFunctions ==
    [f \in Parsed |->
        LET t == Tree(f)
            d == NodesOfKind(t, {"FuncDecl"})
        IN  [k \in 1..Len(d) |-> t[d[k]].name]]

\* Parser.GetFunctions, the range over p.files taking the given order; each
\* declaration is given by its fn.Name.Name.
GetFunctions(files, order) == PerFile(FileFunctions, files, order)

-----------------------------------------------------------------------------
(* Analyzer                                                                 *)

\* getTypeString (the Analyzer's): the text of an identifier, a pointer or a
\* qualified name; "" for every other expression.
RECURSIVE getTypeString(_, _)
getTypeString(t, i) ==
    CASE t[i].kind = "Ident"        -> t[i].name
      [] t[i].kind = "StarExpr"     -> "*" \o getTypeString(t, Child(t, i, "X"))
      [] t[i].kind = "SelectorExpr" ->
           getTypeString(t, Child(t, i, "X")) \o "." \o t[Child(t, i, "Sel")].name
      [] OTHER                      -> ""

\* findParent: the last node ast.Inspect(node, ...) visits other than node
\* itself, the callback returning false on node; 0 is nil.
findParent(t, node) ==
    LET others == SelectSeq(Inspect(t, node, {node}), LAMBDA n : n # node)
    IN  IF others = << >> THEN 0 ELSE others[Len(others)]

\* getCurrentFunction: the name of the first FuncDecl on the findParent chain.
RECURSIVE getCurrentFunction(_, _)
getCurrentFunction(t, node) ==
    IF node = 0 THEN ""
    ELSE IF t[node].kind = "FuncDecl" THEN t[node].name
    ELSE getCurrentFunction(t, findParent(t, node))

\* The type strings of the fields of a field list that have no name.
RECURSIVE EmbeddedOf(_, _)
EmbeddedOf(t, fields) ==
    IF fields = << >> THEN << >>
    ELSE (IF Children(t, Head(fields), "Names") = << >>
          THEN << getTypeString(t, Child(t, Head(fields), "Type")) >>
          ELSE << >>) \o EmbeddedOf(t, Tail(fields))

\* The first name of every entry of an interface's method list that has one.
RECURSIVE MethodsOf(_, _)
MethodsOf(t, fields) ==
    IF fields = << >> THEN << >>
    ELSE (IF Len(Children(t, Head(fields), "Names")) > 0
          THEN << t[Children(t, Head(fields), "Names")[1]].name >>
          ELSE << >>) \o MethodsOf(t, Tail(fields))

\* The TypeInfo analyzeTypes builds for one TypeSpec.
TypeInfoOf(t, i) ==
    LET ty   == Child(t, i, "Type")
        list == Children(t, Child(t, ty, IF t[ty].kind = "StructType"
                                          THEN "Fields" ELSE "Methods"), "List")
    IN  [ Name        |-> t[Child(t, i, "Name")].name,
          IsStruct    |-> t[ty].kind = "StructType",
          IsInterface |-> t[ty].kind = "InterfaceType",
          Methods     |-> IF t[ty].kind = "InterfaceType"
                          THEN MethodsOf(t, list) ELSE << >>,
          Embedded    |-> IF t[ty].kind = "StructType"
                          THEN EmbeddedOf(t, list) ELSE << >> ]

\* The TypeInfos of each tree's type declarations, in source order.
FileTypeInfos ==
    [f \in Parsed |->
        LET t == Tree(f)
            s == NodesOfKind(t, {"TypeSpec"})
        IN  [k \in 1..Len(s) |-> TypeInfoOf(t, s[k])]]

RECURSIVE analyzeTypesLoop(_, _)
analyzeTypesLoop(types, infos) ==
    IF infos = << >> THEN types
    ELSE analyzeTypesLoop(Put(types, Head(infos).Name, Head(infos)), Tail(infos))

\* Analyzer.analyzeTypes: a.types[info.Name] = info for every type declaration
\* GetTypes returns.
analyzeTypes(types, files, order) ==
    analyzeTypesLoop(types, PerFile(FileTypeInfos, files, order))

\* Each tree's calls of a plain identifier, with the caller getCurrentFunction
\* finds for the call.
FileCalls ==
    [f \in Parsed |->
        LET t == Tree(f)
            c == SelectSeq(NodesOfKind(t, {"CallExpr"}),
                           LAMBDA n : t[Child(t, n, "Fun")].kind = "Ident")
        IN  [k \in 1..Len(c) |->
                [caller |-> getCurrentFunction(t, c[k]),
                 callee |-> t[Child(t, c[k], "Fun")].name]]]

RECURSIVE analyzeCallsLoop(_, _)
analyzeCallsLoop(calls, sites) ==
    IF sites = << >> THEN calls
    ELSE analyzeCallsLoop(
             IF Head(sites).caller # ""
             THEN AppendTo(calls, Head(sites).caller, Head(sites).callee)
             ELSE calls,
             Tail(sites))

\* Analyzer.analyzeCalls
analyzeCalls(calls, files, order) ==
    analyzeCallsLoop(calls, PerFile(FileCalls, files, order))

\* Each tree's expressions that have a type string, with the function
\* getCurrentFunction finds for the expression.
FileUses ==
    [f \in Parsed |->
        LET t == Tree(f)
            e == SelectSeq(NodesOfKind(t, ExprKinds),
                           LAMBDA n : getTypeString(t, n) # "")
        IN  [k \in 1..Len(e) |->
                [typeName |-> getTypeString(t, e[k]),
                 context  |-> getCurrentFunction(t, e[k])]]]

RECURSIVE analyzeUsesLoop(_, _, _)
analyzeUsesLoop(uses, types, sites) ==
    IF sites = << >> THEN uses
    ELSE analyzeUsesLoop(
             IF Has(types, Head(sites).typeName) /\ Head(sites).context # ""
             THEN AppendTo(uses, Head(sites).context,
                           types[Head(sites).typeName].Name)
             ELSE uses,
             types, Tail(sites))

\* Analyzer.analyzeUses
analyzeUses(uses, types, files, order) ==
    analyzeUsesLoop(uses, types, PerFile(FileUses, files, order))

-----------------------------------------------------------------------------
(* The memex repository, seen through AddNode and AddLink.                  *)

NodeTypePackage == "ast.package"
NodeTypeFunction == "ast.function"
NodeTypeStruct == "ast.struct"
NodeTypeInterface == "ast.interface"
LinkTypeCalls == "ast.calls"
LinkTypeImplements == "ast.implements"
LinkTypeEmbeds == "ast.embeds"
LinkTypeUses == "ast.uses"

\* The text of the error a failing repository write returns.
StoreErr == "repository write failed"

VARIABLES
    parser,     \* Parser:       [files]
    analyzer,   \* Analyzer:     [parser, types, calls, uses]
    builder,    \* GraphBuilder: [analyzer, packages, types, functions]
    repo,       \* the repository: [nodes, links]
    dedup,      \* whether the repository gives equal (content, type) one node
    pc,         \* where the running call stands; "idle" between calls
    cur,        \* the running (or last) call: [op, path, writes0, ready0]
    result,     \* what the last call returned: "" for nil, else the error text
    log,        \* the stages the running (or last) call started and ended
    pass,       \* the number of Build calls so far
    passes,     \* passes[k]: Build k's [files, issued, ok]: the files parsed when it
                \* began, the identifiers AddNode returned in it, whether it returned nil
    writes,     \* the number of AddNode and AddLink calls so far
    parses,     \* the number of AST.Parse calls so far
    ncalls,     \* the number of direct component calls so far
    failures,   \* the number of repository writes that failed so far
    analyzed    \* whether Analyze has returned nil at least once

vars ==
    << parser, analyzer, builder, repo, dedup, pc, cur, result, log, pass,
       passes, writes, parses, ncalls, failures, analyzed >>

\* AddNode: the identifier of the node written.  A repository that
\* deduplicates returns the node it already holds for (content, type); one that
\* does not makes a new node, told from the others by its ordinal.
AddNode(nodes, content, nodeType) ==
    LET same == { x \in nodes : x.content = content /\ x.type = nodeType }
    IN  IF dedup /\ same # {}
        THEN CHOOSE x \in same : TRUE
        ELSE [content |-> content, type |-> nodeType, n |-> Cardinality(same) + 1]

\* AddLink: the links with the new one appended; during records the Build pass.
AddLink(links, link, during) ==
    Append(links, [source |-> link.source, target |-> link.target,
                   type |-> link.type, pass |-> during])

-----------------------------------------------------------------------------
(* GraphBuilder                                                             *)

\* One node stage: AddNode for each item in turn, the identifier stored in the
\* index under the item's name; the failAt-th write of the stage fails (0: none)
\* and ends the stage with the error.
RECURSIVE addNodes(_, _, _, _)
addNodes(st, items, failAt, errText) ==
    IF items = << >> THEN st
    ELSE IF st.n + 1 = failAt
    THEN [st EXCEPT !.n = @ + 1, !.err = errText \o ": " \o StoreErr]
    ELSE LET id == AddNode(st.nodes, Head(items).name, Head(items).type)
         IN  addNodes([ index  |-> Put(st.index, Head(items).name, id),
                        nodes  |-> st.nodes \cup {id},
                        issued |-> st.issued \cup {id},
                        n      |-> st.n + 1,
                        err    |-> "" ],
                      Tail(items), failAt, errText)

Stage0(index, nodes) ==
    [index |-> index, nodes |-> nodes, issued |-> {}, n |-> 0, err |-> ""]

\* GraphBuilder.buildPackages; order is the slice GetPackages returned.
buildPackages(packages, nodes, order, failAt) ==
    addNodes(Stage0(packages, nodes),
             [k \in 1..Len(order) |-> [name |-> order[k], type |-> NodeTypePackage]],
             failAt, "adding package node")

\* The node type buildTypes gives a TypeInfo.
NodeTypeOf(info) == IF info.IsInterface THEN NodeTypeInterface ELSE NodeTypeStruct

\* buildTypes as it would be if it left alone a name the index already holds:
\* the identifier of an earlier pass stays in the index.
buildTypes_keepIndexed(types, nodes, infos, order, failAt) ==
    LET new == SelectSeq(order, LAMBDA name : ~Has(types, name))
    IN  addNodes(Stage0(types, nodes),
                 [k \in 1..Len(new) |->
                     [name |-> new[k], type |-> NodeTypeOf(infos[new[k]])]],
                 failAt, "adding type node")

\* GraphBuilder.buildTypes; order is the order of the range over analyzer.types.
buildTypes(types, nodes, infos, order, failAt) ==
    addNodes(Stage0(types, nodes),
             [k \in 1..Len(order) |->
                 [name |-> order[k], type |-> NodeTypeOf(infos[order[k]])]],
             failAt, "adding type node")

\* GraphBuilder.buildFunctions; funcs is the slice GetFunctions returned.
buildFunctions(functions, nodes, funcs, failAt) ==
    addNodes(Stage0(functions, nodes),
             [k \in 1..Len(funcs) |->
                 [name |-> funcs[k], type |-> NodeTypeFunction]],
             failAt, "adding function node")

\* The inner loop as it would be without the lookup's exists test: a name the
\* index does not hold gives a link to the zero identifier.
RECURSIVE InnerLinks_noCheck(_, _, _, _)
InnerLinks_noCheck(sourceID, names, targets, linkType) ==
    IF names = << >> THEN << >>
    ELSE << [source |-> sourceID,
             target |-> IF Has(targets, Head(names)) THEN targets[Head(names)]
                        ELSE [content |-> Head(names), type |-> "", n |-> 0],
             type |-> linkType] >>
         \o InnerLinks_noCheck(sourceID, Tail(names), targets, linkType)

\* The inner loop of buildRelationships: one link per name the index resolves.
RECURSIVE InnerLinks(_, _, _, _)
InnerLinks(sourceID, names, targets, linkType) ==
    IF names = << >> THEN << >>
    ELSE (IF Has(targets, Head(names))
          THEN << [source |-> sourceID, target |-> targets[Head(names)],
                   type |-> linkType] >>
          ELSE << >>) \o InnerLinks(sourceID, Tail(names), targets, linkType)

\* One of the three loops of buildRelationships: the range over a table, a key
\* the source index does not resolve being skipped.
RECURSIVE TableLinks(_, _, _, _, _)
TableLinks(table, order, sources, targets, linkType) ==
    IF order = << >> THEN << >>
    ELSE (IF Has(sources, Head(order))
          THEN InnerLinks(sources[Head(order)], table[Head(order)], targets, linkType)
          ELSE << >>)
         \o TableLinks(table, Tail(order), sources, targets, linkType)

\* The AddLink calls buildRelationships makes, in order: calls, embeds, uses.
RelationshipLinks(b, a, oc, ot, ou) ==
    TableLinks(a.calls, oc, b.functions, b.functions, LinkTypeCalls)
      \o TableLinks([n \in DOMAIN a.types |-> a.types[n].Embedded], ot,
                    b.types, b.types, LinkTypeEmbeds)
      \o TableLinks(a.uses, ou, b.functions, b.types, LinkTypeUses)

LinkErr(linkType) ==
    CASE linkType = LinkTypeCalls  -> "adding call link"
      [] linkType = LinkTypeEmbeds -> "adding embed link"
      [] OTHER                     -> "adding use link"

RECURSIVE addLinks(_, _, _, _)
addLinks(st, reqs, failAt, during) ==
    IF reqs = << >> THEN st
    ELSE IF st.n + 1 = failAt
    THEN [st EXCEPT !.n = @ + 1,
                    !.err = LinkErr(Head(reqs).type) \o ": " \o StoreErr]
    ELSE addLinks([links |-> AddLink(st.links, Head(reqs), during),
                   n |-> st.n + 1, err |-> ""],
                  Tail(reqs), failAt, during)

\* GraphBuilder.buildRelationships
buildRelationships(b, a, links, oc, ot, ou, failAt, during) ==
    addLinks([links |-> links, n |-> 0, err |-> ""],
             RelationshipLinks(b, a, oc, ot, ou), failAt, during)

-----------------------------------------------------------------------------
(* Construction                                                             *)

NewParser == [files |-> EmptyMap]

NewAnalyzer ==
    [parser |-> "nil", types |-> EmptyMap, calls |-> EmptyMap, uses |-> EmptyMap]

NewGraphBuilder ==
    [analyzer |-> "nil", packages |-> EmptyMap, types |-> EmptyMap,
     functions |-> EmptyMap]

\* Analyzer.SetParser
SetParser(a) == [a EXCEPT !.parser = "parser"]

\* GraphBuilder.SetAnalyzer
SetAnalyzer(g) == [g EXCEPT !.analyzer = "analyzer"]

NoCall == [op |-> "none", path |-> "", writes0 |-> 0, ready0 |-> "ready"]

Fresh ==
    /\ parser = NewParser
    /\ repo = [nodes |-> {}, links |-> << >>]
    /\ dedup \in BOOLEAN
    /\ pc = "idle"
    /\ cur = NoCall
    /\ result = ""
    /\ log = << >>
    /\ pass = 0
    /\ passes = << >>
    /\ writes = 0
    /\ parses = 0
    /\ ncalls = 0
    /\ failures = 0
    /\ analyzed = FALSE

\* AST.Init: the components made and connected.
AfterInit ==
    /\ analyzer = SetParser(NewAnalyzer)
    /\ builder = SetAnalyzer(NewGraphBuilder)

\* The plugin constructor NewModule: the components made, none connected.
AfterNewModule ==
    /\ analyzer = NewAnalyzer
    /\ builder = NewGraphBuilder

\* A module instance as either constructor leaves it.
Init == Fresh /\ (AfterInit \/ AfterNewModule)

\* The three components as their constructors leave them.
InitAPI ==
    /\ Fresh
    /\ analyzer = NewAnalyzer
    /\ builder = NewGraphBuilder

-----------------------------------------------------------------------------
(* Calls and their stages                                                   *)

\* How far the GraphBuilder's dependencies have come when Build is called.
Readiness ==
    IF builder.analyzer = "nil" THEN "absent"
    ELSE IF ~analyzed THEN "not analyzed"
    ELSE "ready"

Call(op, path) ==
    [op |-> op, path |-> path, writes0 |-> writes, ready0 |-> Readiness]

Ev(stage, what) == [stage |-> stage, what |-> what]

\* The error as the facade wraps it; a direct call returns it as it is.
Wrap(prefix, err) == IF cur.op = "Parse" THEN prefix \o ": " \o err ELSE err

\* AST.Parse as it would be if it went on to the next stage whatever the stage
\* before returned.
ParseNext_ignoreError(stage, err) ==
    CASE stage = "ParsePath" -> "Analyze"
      [] stage = "Analyze"   -> "Build"
      [] OTHER               -> "idle"

\* AST.Parse after a stage has returned: out with the error, or on to the
\* next stage; "idle" is the return.
ParseNext(stage, err) ==
    IF err # "" THEN "idle"
    ELSE CASE stage = "ParsePath" -> "Analyze"
           [] stage = "Analyze"   -> "Build"
           [] OTHER               -> "idle"

\* Where control goes when a stage returns: a direct call returns to its caller.
After(stage, err) == IF cur.op = "Parse" THEN ParseNext(stage, err) ELSE "idle"

\* The number of the write of a stage of n writes that fails; 0 for none.
FailPoints(n) == IF failures < MaxFailures THEN 0..n ELSE {0}

\* AST.Parse(path), up to its first stage.
Parse(path) ==
    /\ pc = "idle"
    /\ parses < MaxParses
    /\ parses' = parses + 1
    /\ cur' = Call("Parse", path)
    /\ log' = << >>
    /\ \E wd \in BOOLEAN :          \* whether filepath.Abs finds the directory
          IF wd THEN pc' = "ParsePath" /\ result' = ""
                ELSE pc' = "idle" /\ result' = "resolving path: getwd failed"
    /\ UNCHANGED << parser, analyzer, builder, repo, dedup, pass, passes, writes,
                    ncalls, failures, analyzed >>

\* Parser.ParsePath
StageParsePath ==
    /\ pc = "ParsePath"
    /\ LET path == IF cur.op = "Parse" THEN Abs(cur.path) ELSE cur.path
           r    == ParsePath(parser.files, path)
       IN  /\ parser' = [files |-> r.files]
           /\ IF r.err # ""
              THEN /\ result' = Wrap("parsing files", r.err)
                   /\ log' = log \o << Ev("ParsePath", "start"), Ev("ParsePath", "error") >>
              ELSE /\ result' = ""
                   /\ log' = log \o << Ev("ParsePath", "start"), Ev("ParsePath", "ok") >>
           /\ pc' = After("ParsePath", r.err)
    /\ UNCHANGED << analyzer, builder, repo, dedup, cur, pass, passes, writes,
                    parses, ncalls, failures, analyzed >>

\* Analyzer.Analyze, to the end of analyzeTypes.
StageAnalyzeTypes ==
    /\ pc = "Analyze"
    /\ IF analyzer.parser = "nil"
       THEN /\ pc' = After("Analyze", "parser not set")
            /\ result' = Wrap("analyzing code", "parser not set")
            /\ log' = log \o << Ev("Analyze", "start"), Ev("Analyze", "error") >>
            /\ UNCHANGED analyzer
       ELSE /\ \E order \in Orders(DOMAIN parser.files) :
                  analyzer' = [analyzer EXCEPT
                                  !.types = analyzeTypes(@, parser.files, order)]
            /\ pc' = "analyzeCalls"
            /\ log' = Append(log, Ev("Analyze", "start"))
            /\ UNCHANGED result
    /\ UNCHANGED << parser, builder, repo, dedup, cur, pass, passes, writes,
                    parses, ncalls, failures, analyzed >>

\* Analyzer.analyzeCalls
StageAnalyzeCalls ==
    /\ pc = "analyzeCalls"
    /\ \E order \in Orders(DOMAIN parser.files) :
          analyzer' = [analyzer EXCEPT
                          !.calls = analyzeCalls(@, parser.files, order)]
    /\ pc' = "analyzeUses"
    /\ UNCHANGED << parser, builder, repo, dedup, cur, result, log, pass, passes,
                    writes, parses, ncalls, failures, analyzed >>

\* Analyzer.analyzeUses, and the return of Analyze.
StageAnalyzeUses ==
    /\ pc = "analyzeUses"
    /\ \E order \in Orders(DOMAIN parser.files) :
          analyzer' = [analyzer EXCEPT
                          !.uses = analyzeUses(@, analyzer.types, parser.files, order)]
    /\ analyzed' = TRUE
    /\ log' = Append(log, Ev("Analyze", "ok"))
    /\ pc' = After("Analyze", "")
    /\ result' = ""
    /\ UNCHANGED << parser, builder, repo, dedup, cur, pass, passes, writes,
                    parses, ncalls, failures >>

\* The record of a Build pass as it begins.
NewPass(ids) == [files |-> DOMAIN parser.files, issued |-> ids, ok |-> FALSE]

\* The end of a node stage as it would be if Build went on to the next stage
\* after a failed write.
StageEnd_ignoreError(st, stage, next) ==
    /\ repo' = [repo EXCEPT !.nodes = st.nodes]
    /\ passes' = [passes EXCEPT ![pass].issued = @ \cup st.issued]
    /\ writes' = writes + st.n
    /\ failures' = IF st.err # "" THEN failures + 1 ELSE failures
    /\ pc' = next
    /\ IF st.err # ""
       THEN /\ result' = Wrap("building graph", stage \o ": " \o st.err)
            /\ log' = Append(log, Ev("Build", "error"))
       ELSE UNCHANGED << result, log >>

\* The end of a node stage of Build: on to the next stage, or out with the error.
StageEnd(st, stage, next) ==
    /\ repo' = [repo EXCEPT !.nodes = st.nodes]
    /\ passes' = [passes EXCEPT ![pass].issued = @ \cup st.issued]
    /\ writes' = writes + st.n
    /\ failures' = IF st.err # "" THEN failures + 1 ELSE failures
    /\ IF st.err # ""
       THEN /\ pc' = After("Build", st.err)
            /\ result' = Wrap("building graph", stage \o ": " \o st.err)
            /\ log' = Append(log, Ev("Build", "error"))
       ELSE /\ pc' = next
            /\ UNCHANGED << result, log >>

\* GraphBuilder.Build, to the end of buildPackages.
StageBuildPackages ==
    /\ pc = "Build"
    /\ pass' = pass + 1
    /\ IF builder.analyzer = "nil"
       THEN /\ pc' = After("Build", "analyzer not set")
            /\ result' = Wrap("building graph", "analyzer not set")
            /\ log' = log \o << Ev("Build", "start"), Ev("Build", "error") >>
            /\ passes' = Append(passes, NewPass({}))
            /\ UNCHANGED << builder, repo, writes, failures >>
       ELSE IF analyzer.parser = "nil"
       THEN \* g.analyzer.parser.GetPackages() reads the files of a nil Parser
            /\ pc' = "panicked"
            /\ result' = "panic: nil pointer dereference"
            /\ log' = log \o << Ev("Build", "start"), Ev("Build", "panic") >>
            /\ passes' = Append(passes, NewPass({}))
            /\ UNCHANGED << builder, repo, writes, failures >>
       ELSE \E order \in Orders(GetPackages(parser.files)) :
            \E failAt \in FailPoints(Len(order)) :
               LET st == buildPackages(builder.packages, repo.nodes, order, failAt)
               IN  /\ builder' = [builder EXCEPT !.packages = st.index]
                   /\ repo' = [repo EXCEPT !.nodes = st.nodes]
                   /\ passes' = Append(passes, NewPass(st.issued))
                   /\ writes' = writes + st.n
                   /\ failures' = IF st.err # "" THEN failures + 1 ELSE failures
                   /\ IF st.err # ""
                      THEN /\ pc' = After("Build", st.err)
                           /\ result' = Wrap("building graph",
                                             "building packages: " \o st.err)
                           /\ log' = log \o << Ev("Build", "start"),
                                               Ev("Build", "error") >>
                      ELSE /\ pc' = "buildTypes"
                           /\ log' = Append(log, Ev("Build", "start"))
                           /\ UNCHANGED result
    /\ UNCHANGED << parser, analyzer, dedup, cur, parses, ncalls, analyzed >>

\* GraphBuilder.buildTypes
StageBuildTypes ==
    /\ pc = "buildTypes"
    /\ \E order \in Orders(DOMAIN analyzer.types) :
       \E failAt \in FailPoints(Len(order)) :
          LET st == buildTypes(builder.types, repo.nodes, analyzer.types, order, failAt)
          IN  /\ builder' = [builder EXCEPT !.types = st.index]
              /\ StageEnd(st, "building types", "buildFunctions")
    /\ UNCHANGED << parser, analyzer, dedup, cur, pass, parses, ncalls, analyzed >>

\* GraphBuilder.buildFunctions
StageBuildFunctions ==
    /\ pc = "buildFunctions"
    /\ \E order \in Orders(DOMAIN parser.files) :
          LET funcs == GetFunctions(parser.files, order)
          IN  \E failAt \in FailPoints(Len(funcs)) :
                 LET st == buildFunctions(builder.functions, repo.nodes, funcs, failAt)
                 IN  /\ builder' = [builder EXCEPT !.functions = st.index]
                     /\ StageEnd(st, "building functions", "buildRelationships")
    /\ UNCHANGED << parser, analyzer, dedup, cur, pass, parses, ncalls, analyzed >>

\* GraphBuilder.buildRelationships, and the return of Build.
StageBuildRelationships ==
    /\ pc = "buildRelationships"
    /\ \E oc \in Orders(DOMAIN analyzer.calls) :
       \E ot \in Orders(DOMAIN analyzer.types) :
       \E ou \in Orders(DOMAIN analyzer.uses) :
       \E failAt \in FailPoints(Len(RelationshipLinks(builder, analyzer, oc, ot, ou))) :
          LET st == buildRelationships(builder, analyzer, repo.links, oc, ot, ou,
                                       failAt, pass)
          IN  /\ repo' = [repo EXCEPT !.links = st.links]
              /\ writes' = writes + st.n
              /\ failures' = IF st.err # "" THEN failures + 1 ELSE failures
              /\ result' = IF st.err # ""
                           THEN Wrap("building graph",
                                     "building relationships: " \o st.err)
                           ELSE ""
              /\ log' = Append(log, Ev("Build", IF st.err # "" THEN "error" ELSE "ok"))
              /\ passes' = [passes EXCEPT ![pass].ok = (st.err = "")]
              /\ pc' = After("Build", st.err)
    /\ UNCHANGED << parser, analyzer, builder, dedup, cur, pass, parses, ncalls,
                    analyzed >>

Stages ==
    \/ StageParsePath
    \/ StageAnalyzeTypes
    \/ StageAnalyzeCalls
    \/ StageAnalyzeUses
    \/ StageBuildPackages
    \/ StageBuildTypes
    \/ StageBuildFunctions
    \/ StageBuildRelationships

\* The facade: Parse after Parse on one module instance.
Next == (\E path \in Paths : Parse(path)) \/ Stages

Spec == Init /\ [][Next]_vars

-----------------------------------------------------------------------------
(* The components called directly, through their exported methods.          *)

Direct(op, path) ==
    /\ pc = "idle"
    /\ ncalls < MaxCalls
    /\ ncalls' = ncalls + 1
    /\ cur' = Call(op, path)
    /\ log' = << >>

CallSetParser ==
    /\ Direct("SetParser", "")
    /\ analyzer' = SetParser(analyzer)
    /\ UNCHANGED << parser, builder, repo, dedup, pc, result, pass, passes, writes,
                    parses, failures, analyzed >>

CallSetAnalyzer ==
    /\ Direct("SetAnalyzer", "")
    /\ builder' = SetAnalyzer(builder)
    /\ UNCHANGED << parser, analyzer, repo, dedup, pc, result, pass, passes, writes,
                    parses, failures, analyzed >>

CallParsePath(path) ==
    /\ Direct("ParsePath", path)
    /\ pc' = "ParsePath"
    /\ UNCHANGED << parser, analyzer, builder, repo, dedup, result, pass, passes,
                    writes, parses, failures, analyzed >>

CallAnalyze ==
    /\ Direct("Analyze", "")
    /\ pc' = "Analyze"
    /\ UNCHANGED << parser, analyzer, builder, repo, dedup, result, pass, passes,
                    writes, parses, failures, analyzed >>

CallBuild ==
    /\ Direct("Build", "")
    /\ pc' = "Build"
    /\ UNCHANGED << parser, analyzer, builder, repo, dedup, result, pass, passes,
                    writes, parses, failures, analyzed >>

NextAPI ==
    \/ CallSetParser
    \/ CallSetAnalyzer
    \/ \E path \in Paths : CallParsePath(Abs(path))
    \/ CallAnalyze
    \/ CallBuild
    \/ Stages

SpecAPI == InitAPI /\ [][NextAPI]_vars

-----------------------------------------------------------------------------
(* buildRelationships on any tables and any index.                          *)

SeqsUpTo(S, n) == UNION { [1..k -> S] : k \in 0..n }

\* The Go maps from some of the keys to a slice of at most MaxPairs values.
Tables(keys, vals) ==
    UNION { [ks -> SeqsUpTo(vals, MaxPairs)] : ks \in SUBSET keys }

\* The index a node stage leaves for the names: each its own node.
IndexOf(names, nodeType) ==
    [n \in names |-> [content |-> n, type |-> nodeType, n |-> 1]]

Range(f) == { f[x] : x \in DOMAIN f }

\* A GraphBuilder about to run buildRelationships, its Analyzer holding any
\* call table, embedded lists and usage table, its index any of the names.
InitTables ==
    /\ parser = NewParser
    /\ dedup = FALSE
    /\ \E calls \in Tables({"A"}, {"B", "ext"}) :
       \E uses \in Tables({"A"}, {"S", "U"}) :
       \E embedded \in SeqsUpTo({"T", "U"}, MaxPairs) :
          analyzer =
              [ parser |-> "parser",
                types  |-> [n \in {"S"} |->
                               [Name |-> n, IsStruct |-> TRUE, IsInterface |-> FALSE,
                                Methods |-> << >>, Embedded |-> embedded]],
                calls  |-> calls,
                uses   |-> uses ]
    /\ \E fs \in { {"B"}, {"A", "B"} } :
       \E ts \in { {"T"}, {"S", "T"} } :
          builder = [ analyzer  |-> "analyzer",
                      packages  |-> EmptyMap,
                      types     |-> IndexOf(ts, NodeTypeStruct),
                      functions |-> IndexOf(fs, NodeTypeFunction) ]
    /\ repo = [nodes |-> Range(builder.types) \cup Range(builder.functions),
               links |-> << >>]
    /\ pc = "buildRelationships"
    /\ cur = [op |-> "Build", path |-> "", writes0 |-> 0, ready0 |-> "ready"]
    /\ result = ""
    /\ log = << Ev("Build", "start") >>
    /\ pass = 1
    /\ passes = << [files |-> {}, issued |-> repo.nodes, ok |-> FALSE] >>
    /\ writes = 0
    /\ parses = 0
    /\ ncalls = 0
    /\ failures = 0
    /\ analyzed = TRUE

NextTables == StageBuildRelationships

SpecTables == InitTables /\ [][NextTables]_vars

-----------------------------------------------------------------------------
(* The read helpers of the facade.                                          *)

\* The names the command layer hands to the read helpers.
Names == { "Greeter", "A", "p", "nope" }

NotFound == "node not found"

\* Base.GetNode: the nodes the store may return for the identifier; none is
\* the not-found error.
GetNode(nodes, id) == { x \in nodes : x.content = id }

\* Base.GetLinks: the links at a node.
GetLinks(links, id) == SelectSeq(links, LAMBDA l : l.source = id \/ l.target = id)

\* One line written by fmt.Printf.
Printed(text) == Ev("print", text)

\* The lines of the loop over the links of a node: one per link of the type,
\* naming the node at its far end (the target, or the source).
LinkLines(links, linkType, end, prefix) ==
    LET mine == SelectSeq(links, LAMBDA l : l.type = linkType)
    IN  [k \in 1..Len(mine) |->
            Printed(prefix \o (IF end = "target" THEN mine[k].target.content
                                                 ELSE mine[k].source.content))]

\* What a read helper returns and prints from its GetNode on: the error
\* when GetNode fails; otherwise the lines for a node of the wanted types,
\* the links read by GetLinks (which may fail) when the helper walks them.
Show(name, errText, nodeTypes, linkType, end, prefix) ==
    IF GetNode(repo.nodes, name) = {}
    THEN { [result |-> errText \o ": " \o NotFound, log |-> << >>] }
    ELSE UNION {
           IF node.type \notin nodeTypes
           THEN { [result |-> "", log |-> << >>] }
           ELSE IF linkType = ""
           THEN { [result |-> "", log |-> << Printed(node.content) >>] }
           ELSE { [result |-> "getting links: " \o StoreErr,
                   log    |-> << Printed(node.content) >>],
                  [result |-> "",
                   log    |-> << Printed(node.content) >>
                              \o LinkLines(GetLinks(repo.links, node), linkType,
                                           end, prefix)] } :
           node \in GetNode(repo.nodes, name) }

\* AST.ShowTypes
ShowTypes(typeName) ==
    /\ pc = "idle"
    /\ cur' = Call("ShowTypes", typeName)
    /\ \E out \in Show(typeName, "querying nodes",
                       {NodeTypeStruct, NodeTypeInterface}, "", "", "") :
          result' = out.result /\ log' = out.log
    /\ UNCHANGED << parser, analyzer, builder, repo, dedup, pc, pass, passes,
                    writes, parses, ncalls, failures, analyzed >>

\* AST.ShowCalls
ShowCalls(funcName) ==
    /\ pc = "idle"
    /\ cur' = Call("ShowCalls", funcName)
    /\ \E out \in Show(funcName, "getting function", {NodeTypeFunction},
                       LinkTypeCalls, "target", "calls: ") :
          result' = out.result /\ log' = out.log
    /\ UNCHANGED << parser, analyzer, builder, repo, dedup, pc, pass, passes,
                    writes, parses, ncalls, failures, analyzed >>

\* AST.ShowImplementations
ShowImplementations(interfaceName) ==
    /\ pc = "idle"
    /\ cur' = Call("ShowImplementations", interfaceName)
    /\ \E out \in Show(interfaceName, "getting interface", {NodeTypeInterface},
                       LinkTypeImplements, "source", "implemented by: ") :
          result' = out.result /\ log' = out.log
    /\ UNCHANGED << parser, analyzer, builder, repo, dedup, pc, pass, passes,
                    writes, parses, ncalls, failures, analyzed >>

\* AST.ShowDependencies; no import link is ever written by the GraphBuilder.
ShowDependencies(pkgPath) ==
    /\ pc = "idle"
    /\ cur' = Call("ShowDependencies", pkgPath)
    /\ \E out \in Show(pkgPath, "getting package", {NodeTypePackage},
                       "ast.imports", "target", "imports: ") :
          result' = out.result /\ log' = out.log
    /\ UNCHANGED << parser, analyzer, builder, repo, dedup, pc, pass, passes,
                    writes, parses, ncalls, failures, analyzed >>

ShowOps == { "ShowTypes", "ShowCalls", "ShowImplementations", "ShowDependencies" }

\* AST.HandleCommand: parse, types, calls, impls, deps.
NextShow ==
    \/ \E path \in Paths : Parse(path)
    \/ Stages
    \/ \E name \in Names : ShowTypes(name)
    \/ \E name \in Names : ShowCalls(name)
    \/ \E name \in Names : ShowImplementations(name)
    \/ \E name \in Names : ShowDependencies(name)

SpecShow == Init /\ [][NextShow]_vars

-----------------------------------------------------------------------------
(* What the parsed sources declare, read off the trees themselves.          *)

Trees == { Tree(parser.files[f]) : f \in DOMAIN parser.files }

\* The nodes of the parsed trees of one kind, as <<tree, position>>.
NodesIn(kinds) ==
    UNION { { << t, i >> : i \in { j \in 1..Len(t) : t[j].kind \in kinds } } :
            t \in Trees }

TypeKind(n) == n[1][Child(n[1], n[2], "Type")].kind

DeclaredTypeNames == { n[1][n[2]].name : n \in NodesIn({"TypeSpec"}) }

DeclaredStructs ==
    { n[1][n[2]].name : n \in { m \in NodesIn({"TypeSpec"}) : TypeKind(m) = "StructType" } }

DeclaredInterfaces ==
    { n[1][n[2]].name : n \in { m \in NodesIn({"TypeSpec"}) : TypeKind(m) = "InterfaceType" } }

DeclaredFunctions == { n[1][n[2]].name : n \in NodesIn({"FuncDecl"}) }

\* The receiver type's name of a function declaration, a pointer receiver
\* counting for its base type; "" for a plain function.
ReceiverOf(t, d) ==
    LET recv == Child(t, d, "Recv")
        ty   == Child(t, Child(t, recv, "List"), "Type")
    IN  IF recv = 0 THEN ""
        ELSE IF t[ty].kind = "StarExpr" THEN t[Child(t, ty, "X")].name
        ELSE t[ty].name

\* The names of the methods declared with receiver S.
MethodNamesOf(S) ==
    { n[1][n[2]].name : n \in { m \in NodesIn({"FuncDecl"}) : ReceiverOf(m[1], m[2]) = S } }

\* The names in the method lists of the interfaces declared as I.
InterfaceMethodNames(I) ==
    UNION { { n[1][j].name :
              j \in { x \in 1..Len(n[1]) :
                        /\ n[1][x].slot = "Names"
                        /\ n[2] \in Ancestors(n[1], x)
                        /\ n[1][n[1][x].parent].parent
                              = Child(n[1], Child(n[1], n[2], "Type"), "Methods") } } :
            n \in { m \in NodesIn({"TypeSpec"}) :
                      TypeKind(m) = "InterfaceType" /\ m[1][m[2]].name = I } }

\* The function declaration a node lies in (body, signature or receiver): its
\* name, or "" at file scope.
EnclosingFunction(t, i) ==
    LET fns == { a \in Ancestors(t, i) : t[a].kind = "FuncDecl" }
    IN  IF fns = {} THEN "" ELSE t[CHOOSE a \in fns : TRUE].name

\* <<F, C>>: function F holds a direct call of the plain name C.
DirectCalls ==
    { << EnclosingFunction(n[1], n[2]), n[1][Child(n[1], n[2], "Fun")].name >> :
      n \in { m \in NodesIn({"CallExpr"}) :
                /\ m[1][Child(m[1], m[2], "Fun")].kind = "Ident"
                /\ EnclosingFunction(m[1], m[2]) # "" } }

\* The names T of the embedded fields of one struct declaration that are
\* written as a plain name of a declared type, in declaration order.
EmbeddedDeclared(n) ==
    LET t      == n[1]
        fields == Children(t, Child(t, Child(t, n[2], "Type"), "Fields"), "List")
        plain  == SelectSeq(fields,
                    LAMBDA f : /\ Children(t, f, "Names") = << >>
                               /\ t[Child(t, f, "Type")].kind = "Ident"
                               /\ t[Child(t, f, "Type")].name \in DeclaredTypeNames)
    IN  [k \in 1..Len(plain) |-> t[Child(t, plain[k], "Type")].name]

\* <<F, T>>: an expression inside function F reads as the name of the
\* classified type T.
TypeExpressions ==
    { << EnclosingFunction(n[1], n[2]), getTypeString(n[1], n[2]) >> :
      n \in { m \in NodesIn(ExprKinds) :
                /\ Has(analyzer.types, getTypeString(m[1], m[2]))
                /\ EnclosingFunction(m[1], m[2]) # "" } }

-----------------------------------------------------------------------------
(* Properties                                                               *)

\* The last call was AST.Parse and it returned nil.
ParseReturnedOK == pc = "idle" /\ cur.op = "Parse" /\ result = ""

LinkSet == { repo.links[i] : i \in 1..Len(repo.links) }

\* The repository holds a link of the type from a node of the one content to a
\* node of the other.
HoldsEdge(from, linkType, to) ==
    \E l \in LinkSet :
        l.type = linkType /\ l.source.content = from /\ l.target.content = to

\* C1: after a successful Parse, a struct S has an implements edge to an
\* interface I exactly when I's method names are not empty and all among the
\* names of the methods declared with receiver S.
C1_ImplementsIffMethodSubset ==
    ParseReturnedOK =>
        \A S \in DeclaredStructs : \A I \in DeclaredInterfaces :
            HoldsEdge(S, LinkTypeImplements, I)
                <=> /\ InterfaceMethodNames(I) # {}
                    /\ InterfaceMethodNames(I) \subseteq MethodNamesOf(S)

\* C2: after a successful Parse, every direct call in function F of a plain
\* name C that is a declared function has a calls edge F -> C.
C2_CallsEdgeForDirectCall ==
    ParseReturnedOK =>
        \A c \in DirectCalls :
            c[2] \in DeclaredFunctions => HoldsEdge(c[1], LinkTypeCalls, c[2])

\* The targets of the embeds links the last Build pass added from the nodes
\* named S, in the order they were added.
EmbedsAdded(S) ==
    LET mine == SelectSeq(repo.links,
                    LAMBDA l : /\ l.pass = pass
                               /\ l.type = LinkTypeEmbeds
                               /\ l.source.content = S)
    IN  [k \in 1..Len(mine) |-> mine[k].target.content]

\* C3: after a successful Parse, every struct declaration with embedded fields
\* of declared types has its embeds edges: one per such field, in declaration
\* order.
C3_EmbedsEdgePerEmbeddedField ==
    ParseReturnedOK =>
        \A n \in { m \in NodesIn({"TypeSpec"}) : TypeKind(m) = "StructType" } :
            EmbeddedDeclared(n) # << >>
                => EmbedsAdded(n[1][n[2]].name) = EmbeddedDeclared(n)

\* C4: after a successful Parse, every expression inside a function F that
\* reads as the name of a classified type T is in the usage table under F and
\* has a uses edge F -> T; nothing is attributed to no function.
C4_UsesAttributedToFunction ==
    ParseReturnedOK =>
        /\ \A u \in TypeExpressions :
              /\ Has(analyzer.uses, u[1])
              /\ u[2] \in Range(analyzer.uses[u[1]])
              /\ HoldsEdge(u[1], LinkTypeUses, u[2])
        /\ ~Has(analyzer.uses, "")

\* The pairs of a table that buildRelationships can resolve, and those it can
\* not: <<key, position>> with the key in the source index and the name at the
\* position in the target index.
Pairs(table) ==
    UNION { { << k, i >> : i \in 1..Len(table[k]) } : k \in DOMAIN table }

Resolved(table, sources, targets) ==
    { p \in Pairs(table) : Has(sources, p[1]) /\ Has(targets, table[p[1]][p[2]]) }

EmbeddedTable == [n \in DOMAIN analyzer.types |-> analyzer.types[n].Embedded]

\* No link of the type stands for a pair of the table the index can not resolve.
NoEdgeForUnresolved(table, sources, targets, linkType) ==
    \A p \in Pairs(table) \ Resolved(table, sources, targets) :
        ~\E l \in LinkSet :
            /\ l.type = linkType
            /\ l.source.content = p[1]
            /\ l.target.content = table[p[1]][p[2]]

\* C5: whatever the call table, embedded lists and usage table, when
\* buildRelationships has returned and no store write has failed, it has
\* returned no error, it has added exactly one link per pair the index resolves,
\* and none for a pair whose caller, callee, embedded name or used name the
\* index does not hold.
C5_UnresolvedNamesDropped ==
    (pc = "idle" /\ failures = 0) =>
        /\ result = ""
        /\ Len(repo.links)
              = Cardinality(Resolved(analyzer.calls, builder.functions, builder.functions))
                + Cardinality(Resolved(EmbeddedTable, builder.types, builder.types))
                + Cardinality(Resolved(analyzer.uses, builder.functions, builder.types))
        /\ NoEdgeForUnresolved(analyzer.calls, builder.functions, builder.functions,
                               LinkTypeCalls)
        /\ NoEdgeForUnresolved(EmbeddedTable, builder.types, builder.types,
                               LinkTypeEmbeds)
        /\ NoEdgeForUnresolved(analyzer.uses, builder.functions, builder.types,
                               LinkTypeUses)

\* buildRelationships has returned success, having added links and having
\* skipped an unresolved callee, an unresolved embedded name and an unresolved
\* used name.
C5_Witness ==
    /\ pc = "idle" /\ failures = 0 /\ result = ""
    /\ Len(repo.links) >= 2
    /\ \E p \in Pairs(analyzer.calls) :
          Has(builder.functions, p[1]) /\ analyzer.calls[p[1]][p[2]] = "ext"
    /\ \E p \in Pairs(EmbeddedTable) :
          Has(builder.types, p[1]) /\ EmbeddedTable[p[1]][p[2]] = "U"
    /\ \E p \in Pairs(analyzer.uses) :
          Has(builder.functions, p[1]) /\ analyzer.uses[p[1]][p[2]] = "U"

\* C6: every link the GraphBuilder has added has a source and a target that
\* AddNode returned in the Build pass that added the link, whatever Parse
\* calls, failed or not, came before.
C6_EdgeEndsIssuedInSamePass ==
    \A i \in 1..Len(repo.links) :
        /\ repo.links[i].pass \in 1..Len(passes)
        /\ repo.links[i].source \in passes[repo.links[i].pass].issued
        /\ repo.links[i].target \in passes[repo.links[i].pass].issued

\* A second Build pass has added a link after a first pass that failed having
\* left identifiers in the index, the store giving every AddNode a new
\* identifier.
C6_Witness ==
    /\ ~dedup
    /\ Len(passes) >= 2
    /\ ~passes[1].ok
    /\ \E t \in passes[1].issued : t.type = NodeTypeStruct
    /\ \E i \in 1..Len(repo.links) : repo.links[i].pass = 2

\* The events of a Parse whose three stages all succeed.
FullLog ==
    << Ev("ParsePath", "start"), Ev("ParsePath", "ok"),
       Ev("Analyze", "start"), Ev("Analyze", "ok"),
       Ev("Build", "start"), Ev("Build", "ok") >>

\* The log ends with the failure of a stage.
EndsInError == log # << >> /\ log[Len(log)].what = "error"

\* C8: in a Parse the stages start and return in the order ParsePath, Analyze,
\* Build, each starting only after the one before returned success; a stage's
\* failure is the last event, Parse then returns an error; Parse returns nil
\* only after all three succeeded; and no store write is made unless Build
\* has started.
C8_StagesInOrderStopAtFailure ==
    cur.op = "Parse" =>
        /\ Len(log) <= Len(FullLog)
        /\ \A i \in 1..Len(log) :
              \/ log[i] = FullLog[i]
              \/ /\ i = Len(log)
                 /\ log[i] = Ev(FullLog[i].stage, "error")
                 /\ FullLog[i].what = "ok"
        /\ EndsInError => (pc = "idle" /\ result # "")
        /\ pc = "idle" => (result = "" <=> log = FullLog)
        /\ Ev("Build", "start") \notin Range(log) => writes = cur.writes0

\* A Parse on an instance that has written to the store before has returned
\* the error of its ParsePath stage.
C8_Witness ==
    /\ cur.op = "Parse" /\ pc = "idle" /\ result # ""
    /\ log = << Ev("ParsePath", "start"), Ev("ParsePath", "error") >>
    /\ writes > 0 /\ writes = cur.writes0

\* C7: a Build called directly on a GraphBuilder with no analyzer, or with an
\* analyzer that has not completed Analyze, returns a not-ready error and
\* makes no store write.
C7_BuildNotReadyNoWrite ==
    (pc \in {"idle", "panicked"} /\ cur.op = "Build" /\ cur.ready0 # "ready") =>
        /\ result \in {"analyzer not set", "parser not set"}
        /\ writes = cur.writes0

\* The set of the logical edges a Build pass added.
EdgesOf(k) ==
    { << l.source.content, l.type, l.target.content >> :
      l \in { x \in LinkSet : x.pass = k } }

\* C9: two successful Build passes over the same parsed files add the same
\* set of logical edges.
C9_SameInputSameEdges ==
    \A j \in 1..Len(passes) : \A k \in 1..Len(passes) :
        (passes[j].ok /\ passes[k].ok /\ passes[j].files = passes[k].files)
            => EdgesOf(j) = EdgesOf(k)

\* C10: once Analyze has completed, every TypeInfo of the type table has
\* exactly one of IsStruct and IsInterface, and after a successful Parse the
\* node of each is of type struct exactly when IsStruct and of type interface
\* exactly when IsInterface.
C10_ExactlyOneKindPerTypeInfo ==
    /\ analyzed =>
          \A n \in DOMAIN analyzer.types :
              analyzer.types[n].IsStruct # analyzer.types[n].IsInterface
    /\ ParseReturnedOK =>
          \A n \in DOMAIN analyzer.types :
              /\ builder.types[n].type = NodeTypeStruct <=> analyzer.types[n].IsStruct
              /\ builder.types[n].type = NodeTypeInterface
                    <=> analyzer.types[n].IsInterface

\* C11: within one Build pass one declared name has one node: no two
\* identifiers AddNode returned in the pass have the same content and node
\* type.
C11_OneNodePerNameInPass ==
    \A k \in 1..Len(passes) :
        \A x \in passes[k].issued : \A y \in passes[k].issued :
            (x.content = y.content /\ x.type = y.type) => x = y

\* C12: a read helper asked for a name the store does not hold returns no
\* error and prints nothing.
C12_ReadHelperNotFoundIsEmpty ==
    (pc = "idle" /\ cur.op \in ShowOps /\ GetNode(repo.nodes, cur.path) = {}) =>
        result = "" /\ log = << >>

\* The .go files of a path handed to ParsePath: those of the directory, or
\* the file itself.
FilesAt(path) ==
    IF Stat(path) = "dir" THEN DirFiles(path)
    ELSE IF Stat(path) = "file" THEN {path} ELSE {}

\* The ParsePath stage of the Parse under way (or just returned) has returned.
ParsePathReturned ==
    cur.op = "Parse" /\ \E i \in 1..Len(log) :
        log[i].stage = "ParsePath" /\ log[i].what \in {"ok", "error"}

\* C13: when ParsePath has returned for a directory, the trees of all the
\* files of the directory that parse are in the Parser's collection, also
\* when another file of the directory has a syntax error, and in that case
\* the error is returned.
C13_SiblingsKeptOnSyntaxError ==
    (ParsePathReturned /\ Stat(Abs(cur.path)) = "dir") =>
        /\ \A f \in DirFiles(Abs(cur.path)) : SyntaxOK(f) => Has(parser.files, f)
        /\ (\E f \in DirFiles(Abs(cur.path)) : ~SyntaxOK(f)) => result # ""

\* The Parse just returned ended with the failure of its Build stage.
BuildFailed ==
    /\ cur.op = "Parse" /\ pc = "idle"
    /\ log # << >> /\ log[Len(log)] = Ev("Build", "error")

\* The writes each node stage of a Build pass makes when none fails.
PackageWrites == Cardinality(GetPackages(parser.files))

TypeWrites == Cardinality(DOMAIN analyzer.types)

FunctionWrites == Cardinality(NodesIn({"FuncDecl"}))

\* The store writes the Parse has attempted, the failed one included.
WritesOfCall == writes - cur.writes0

BuildErr(stage, write) ==
    "building graph: " \o stage \o ": " \o write \o ": " \o StoreErr

\* C14: a later stage of Build runs only while no write of the pass has
\* failed; and when a store write has failed during Build, Parse has returned
\* an error that names the stage of the failed write, which is the last write
\* of the pass: the writes of the call end within the stage the error names.
C14_WriteFailureStopsBuild ==
    /\ pc \in {"buildTypes", "buildFunctions", "buildRelationships"}
          => log[Len(log)] = Ev("Build", "start")
    /\ BuildFailed =>
          \/ /\ result = BuildErr("building packages", "adding package node")
             /\ WritesOfCall \in 1..PackageWrites
          \/ /\ result = BuildErr("building types", "adding type node")
             /\ WritesOfCall \in (PackageWrites + 1)..(PackageWrites + TypeWrites)
          \/ /\ result = BuildErr("building functions", "adding function node")
             /\ WritesOfCall \in (PackageWrites + TypeWrites + 1)
                                    ..(PackageWrites + TypeWrites + FunctionWrites)
          \/ /\ result \in { BuildErr("building relationships", LinkErr(t)) :
                               t \in {LinkTypeCalls, LinkTypeEmbeds, LinkTypeUses} }
             /\ WritesOfCall > PackageWrites + TypeWrites + FunctionWrites
             /\ WritesOfCall - (PackageWrites + TypeWrites + FunctionWrites)
                   = Cardinality({ i \in 1..Len(repo.links) :
                                     repo.links[i].pass = pass }) + 1

\* A Parse has returned the error of a failed AddLink of the relationship
\* stage, the three node stages having made all their writes.
C14_Witness ==
    /\ BuildFailed
    /\ result = BuildErr("building relationships", "adding embed link")
    /\ WritesOfCall > PackageWrites + TypeWrites + FunctionWrites

\* C15: a module instance is handed to the command layer with its components
\* connected, the Analyzer holding the Parser and the GraphBuilder the Analyzer,
\* and its first Parse does not fail for a component that is not set.
C15_ConstructorsWireComponents ==
    /\ parses = 0 => (analyzer.parser = "parser" /\ builder.analyzer = "analyzer")
    /\ (parses = 1 /\ cur.op = "Parse" /\ pc = "idle") =>
          result \notin { "analyzing code: parser not set",
                          "building graph: analyzer not set" }

\* The names the nodes of a kind declare in the trees of a set of files.
NamesIn(fs, kind) ==
    UNION { { Tree(f)[j].name :
              j \in { x \in 1..Len(Tree(f)) : Tree(f)[x].kind = kind } } : f \in fs }

PackagesIn(fs) == { Tree(f)[1].name : f \in fs }

\* AddNode was called in Build pass k for the name, with a node type of types.
IssuedIn(k, name, types) ==
    \E id \in passes[k].issued : id.content = name /\ id.type \in types

\* C16: nothing is reset between Parse calls on one instance. The files of a
\* path whose ParsePath succeeded are in the Parser's collection, keyed by
\* path, and no later call removes one: each Build pass sees the files of
\* every pass before it. A Build pass that succeeds calls AddNode for every
\* package, type and function of all those files; and when the store gives
\* each AddNode a new identifier, every node of an earlier successful pass has
\* a duplicate, under a new identifier, in a later one.
C16_StateAccumulatesAcrossParses ==
    /\ (cur.op = "Parse" /\ Ev("ParsePath", "ok") \in Range(log)) =>
          \A f \in FilesAt(Abs(cur.path)) : Has(parser.files, f) /\ parser.files[f] = f
    /\ \A k \in 1..Len(passes) :
          /\ passes[k].files \subseteq DOMAIN parser.files
          /\ \A j \in 1..k : passes[j].files \subseteq passes[k].files
          /\ passes[k].ok =>
                /\ \A n \in PackagesIn(passes[k].files) :
                      IssuedIn(k, n, {NodeTypePackage})
                /\ \A n \in NamesIn(passes[k].files, "TypeSpec") :
                      IssuedIn(k, n, {NodeTypeStruct, NodeTypeInterface})
                /\ \A n \in NamesIn(passes[k].files, "FuncDecl") :
                      IssuedIn(k, n, {NodeTypeFunction})
          /\ \A j \in 1..(k - 1) :
                (~dedup /\ passes[j].ok /\ passes[k].ok) =>
                    /\ passes[j].issued \cap passes[k].issued = {}
                    /\ \A x \in passes[j].issued :
                          IssuedIn(k, x.content, {x.type})

\* Two Parse calls have succeeded on one instance, the second on a path that
\* added files to those of the first, the store giving new identifiers.
C16_Witness ==
    /\ ~dedup /\ pc = "idle" /\ result = ""
    /\ Len(passes) = 2 /\ passes[1].ok /\ passes[2].ok
    /\ passes[1].files # {}
    /\ passes[1].files # passes[2].files
    /\ Cardinality(repo.nodes)
          = Cardinality(passes[1].issued) + Cardinality(passes[2].issued)

====
